---- MODULE Spec2Model ----
(***************************************************************************)
(* A model of klonk-result (src/src/index.ts): the Result wrapper, its two *)
(* variants _Ok and _Err, and the Proxy membrane (__proxify) whose get and *)
(* set traps decide every member read and member write on a Result.        *)
(*                                                                         *)
(* A JavaScript value is a record whose field t tells its kind; the other  *)
(* fields depend on the kind:                                              *)
(*   boolean  b        number  n        string  s (its characters)         *)
(*   object   a  the address of a wrapped object in the heap               *)
(*   error    e  the identity of an Error object                           *)
(*   result   r  the Proxy of Result r;   target  r  the object behind it  *)
(*   function k  the function it is                                        *)
(*            this  the receiver it is bound to ([t |-> "none"]: none)     *)
(*            w  how many times a function that already had its receiver   *)
(*               was wrapped by Function.prototype.bind again; each        *)
(*               wrapping makes another function object of the same        *)
(*               behaviour                                                 *)
(***************************************************************************)
EXTENDS Integers, Sequences, FiniteSets, TLC

VARIABLES results, heap, ret, op, executed, writes

vars == <<results, heap, ret, op, executed, writes>>

(***************************************************************************)
(* Bounds of the model.                                                    *)
(***************************************************************************)
MaxResults == 3
MaxWrites == 1
MaxTagWrites == 2

(***************************************************************************)
(* Values.                                                                 *)
(***************************************************************************)
Undef == [t |-> "undefined"]
Null == [t |-> "null"]
Bool(b) == [t |-> "boolean", b |-> b]
Num(n) == [t |-> "number", n |-> n]
NaN == [t |-> "nan"]
Str(s) == [t |-> "string", s |-> s]
Obj(a) == [t |-> "object", a |-> a]
\* The empty object Object(null) and Object(undefined) make.
FreshObj == [t |-> "fresh"]
ErrorObj(e) == [t |-> "error", e |-> e]
TypeError == [t |-> "typeerror"]
Res(r) == [t |-> "result", r |-> r]
Target(r) == [t |-> "target", r |-> r]

\* A method k running with receiver x: what x's prototype chain holds under
\* that name, after .bind(x).
Bound(k, x) == [t |-> "function", k |-> k, this |-> x, w |-> 0]
\* The same method not bound to anything.
Unbound(k) == Bound(k, [t |-> "none"])
IsUnbound(f) == f.this.t = "none"

IsFunction(v) == v.t = "function"

\* ToBoolean
Truthy(v) ==
    CASE v.t \in {"undefined", "null", "nan"} -> FALSE
      [] v.t = "boolean" -> v.b
      [] v.t = "number" -> v.n # 0
      [] v.t = "string" -> v.s # <<>>
      [] OTHER -> TRUE

\* inner !== null && (typeof inner === "object" || typeof inner === "function")
IsObjectLike(v) == v.t \in {"object", "fresh", "error", "result", "target", "function"}

(***************************************************************************)
(* Names.                                                                  *)
(***************************************************************************)
RESULT_KEYS == {"success", "isOk", "isErr", "unwrap", "error", "throw"}

OtherNames == {"then", "foo", "val", "add", "fail", "valueOf", "length", "toUpperCase"}

Names == RESULT_KEYS \cup OtherNames

\* The properties of an object: a function from the names it has to their
\* values.
NoFields == [m \in {} |-> Undef]
Has(f, p) == p \in DOMAIN f
Put(f, p, v) == (p :> v) @@ f

(***************************************************************************)
(* The store: the Result objects made so far and the objects they wrap.    *)
(*   results[r].cls   "Ok" or "Err": the class the constructor picked      *)
(*   results[r].own   the own properties of the target object, under the   *)
(*                    reserved names                                       *)
(*   results[r].data  the private field #data of an _Ok                    *)
(*   results[r].made  the payload the Result was constructed from          *)
(*   heap[a].cls      "Calculator" or "Object"                             *)
(*   heap[a].f        the own properties of a wrapped object               *)
(***************************************************************************)
Store(rs, hp) == [results |-> rs, heap |-> hp]

\* What an operation gives: the store after it, a returned value or a raised
\* one, and how many methods of wrapped values it ran.
Out(st, kind, v, x) == [st |-> st, kind |-> kind, v |-> v, x |-> x]
Return(st, v, x) == Out(st, "value", v, x)
Raise(st, v, x) == Out(st, "raise", v, x)

\* class _Ok: field success = true, #data = data; no own `error`.
NewOk(data) ==
    [cls |-> "Ok", own |-> Put(NoFields, "success", Bool(TRUE)), data |-> data]

\* class _Err: field success = false, this.error = error; no #data.
NewErr(error) ==
    [cls |-> "Err",
     own |-> Put(Put(NoFields, "success", Bool(FALSE)), "error", error),
     data |-> Undef]

\* new Result(params): _Ok when params.success, _Err otherwise. The field
\* `made` remembers the payload; no operation of the program reads it.
ResultCtor(params) ==
    [made |-> params] @@
    (IF params.success THEN NewOk(params.data) ELSE NewErr(params.error))

(***************************************************************************)
(* Property lookup: Reflect.get(x, p, x), before any binding.              *)
(***************************************************************************)
\* The methods the prototype chain of a Result target holds.
ResultProto(cls, p) ==
    CASE p = "isErr" -> Unbound("_ResultBase.isErr")
      [] p = "isOk" -> Unbound("_ResultBase.isOk")
      [] p = "unwrap" /\ cls = "Ok" -> Unbound("_Ok.unwrap")
      [] p = "unwrap" /\ cls = "Err" -> Unbound("_Err.unwrap")
      [] p = "throw" /\ cls = "Err" -> Unbound("_Err.throw")
      [] OTHER -> Undef

\* Reflect.get(target, p, target)
TargetGet(st, r, p) ==
    IF Has(st.results[r].own, p) THEN st.results[r].own[p]
    ELSE ResultProto(st.results[r].cls, p)

\* Object(inner) for a value that is not object-like: a primitive is boxed
\* (the box is written as the primitive itself, the receiver kind telling
\* which wrapper it is), null and undefined give a new empty object.
Box(inner) == IF inner.t \in {"undefined", "null"} THEN FreshObj ELSE inner

\* What Object.prototype and the built-in wrappers hold under the names of
\* the model.
BuiltinProto(kind, p) ==
    CASE kind \in {"object", "fresh"} /\ p = "valueOf" -> Unbound("Object.valueOf")
      [] kind = "string" /\ p = "valueOf" -> Unbound("String.valueOf")
      [] kind = "string" /\ p = "toUpperCase" -> Unbound("String.toUpperCase")
      [] kind = "number" /\ p = "valueOf" -> Unbound("Number.valueOf")
      [] kind = "nan" /\ p = "valueOf" -> Unbound("Number.valueOf")
      [] kind = "boolean" /\ p = "valueOf" -> Unbound("Boolean.valueOf")
      [] OTHER -> Undef

\* class Calculator { add(n), fail() } of the chaining tests.
ClassProto(cls, p) ==
    CASE cls = "Calculator" /\ p = "add" -> Unbound("Calculator.add")
      [] cls = "Calculator" /\ p = "fail" -> Unbound("Calculator.fail")
      [] OTHER -> Undef

\* Reflect.get(host, p, host) for a wrapped object or a box.
HostGet(st, host, p) ==
    CASE host.t = "object" ->
            IF Has(st.heap[host.a].f, p) THEN st.heap[host.a].f[p]
            ELSE IF ClassProto(st.heap[host.a].cls, p) # Undef
                 THEN ClassProto(st.heap[host.a].cls, p)
                 ELSE BuiltinProto("object", p)
      [] host.t = "string" /\ p = "length" -> Num(Len(host.s))
      [] OTHER -> BuiltinProto(host.t, p)

\* typeof v === "function" ? v.bind(x) : v
\* Binding a function that already has its receiver (a bound function, an
\* arrow function) leaves what it does and makes a new function object.
BindTo(v, x) ==
    IF ~IsFunction(v) THEN v
    ELSE IF IsUnbound(v) THEN Bound(v.k, x)
    ELSE [v EXCEPT !.w = @ + 1]

(***************************************************************************)
(* Calling a function value.                                               *)
(***************************************************************************)
\* String.prototype.toUpperCase, character by character.
UpperChar(c) ==
    CASE c = "h" -> "H"
      [] c = "i" -> "I"
      [] OTHER -> c

Upper(s) == [i \in 1..Len(s) |-> UpperChar(s[i])]

\* a + b on numbers; undefined or NaN on either side gives NaN.
Plus(a, b) == IF a.t = "number" /\ b.t = "number" THEN Num(a.n + b.n) ELSE NaN

\* this.success read inside a method of the Result classes.
ThisSuccess(st, this) == st.results[this.r].own["success"]

\* this.error read inside a method of _Err (undefined when there is none).
ThisError(st, this) ==
    IF Has(st.results[this.r].own, "error") THEN st.results[this.r].own["error"]
    ELSE Undef

\* The payloads of new Result(...).
OkOf(data) == [success |-> TRUE, data |-> data, error |-> Undef]
ErrOf(error) == [success |-> FALSE, data |-> Undef, error |-> error]

\* new Calculator(val)
NewCalculator(val) == [cls |-> "Calculator", f |-> Put(NoFields, "val", val)]

\* this.val read inside a method of Calculator
ThisVal(st, this) ==
    IF Has(st.heap[this.a].f, "val") THEN st.heap[this.a].f["val"] ELSE Undef

\* Calculator.add(n): new Result({success: true, data: new Calculator(this.val + n)})
CalculatorAdd(st, this, a) ==
    Return(Store(Append(st.results, ResultCtor(OkOf(Obj(Len(st.heap) + 1)))),
                 Append(st.heap, NewCalculator(Plus(ThisVal(st, this), a)))),
           Res(Len(st.results) + 1), 1)

\* Calculator.fail(): new Result({success: false, error: new Error('Calc failed')})
CalculatorFail(st) ==
    Return(Store(Append(st.results, ResultCtor(ErrOf(ErrorObj(Len(st.results) + 1)))),
                 st.heap),
           Res(Len(st.results) + 1), 1)

\* A variant that consults the tag before it returns the data.
OkUnwrapChecksTag(st, this) ==
    IF this.t = "target" /\ st.results[this.r].cls = "Ok" /\ Truthy(ThisSuccess(st, this))
    THEN Return(st, st.results[this.r].data, 0)
    ELSE Raise(st, TypeError, 0)

\* _Ok.unwrap: return this.#data. Only an _Ok target has the private field:
\* on any other receiver (the proxy included) the access is a TypeError.
OkUnwrap(st, this) ==
    IF this.t = "target" /\ st.results[this.r].cls = "Ok"
    THEN Return(st, st.results[this.r].data, 0)
    ELSE Raise(st, TypeError, 0)

\* A variant that raises a new error in place of the stored one.
ErrThrowsNewError(st, this) == Raise(st, ErrorObj(0), 0)

\* _Err.unwrap and _Err.throw: throw this.error
ErrThrow(st, this) == Raise(st, ThisError(st, this), 0)

\* A variant without the negation.
IsErrNotNegated(st, this) == Return(st, ThisSuccess(st, this), 0)

\* isErr(): return !this.success
IsErrMethod(st, this) == Return(st, Bool(~Truthy(ThisSuccess(st, this))), 0)

\* isOk(): return this.success
IsOkMethod(st, this) == Return(st, ThisSuccess(st, this), 0)

\* The sticky continuation (..._args) => receiver
StickyFn(st, f) == Return(st, f.this, 0)

\* f(a) for any value f. A method that is bound to nothing runs with
\* this = undefined and fails on its first use of this.
CallFn(st, f, a) ==
    CASE ~IsFunction(f) -> Raise(st, TypeError, 0)
      [] f.k = "sticky" -> StickyFn(st, f)
      [] IsUnbound(f) -> Raise(st, TypeError, 0)
      [] f.k = "_ResultBase.isErr" -> IsErrMethod(st, f.this)
      [] f.k = "_ResultBase.isOk" -> IsOkMethod(st, f.this)
      [] f.k = "_Ok.unwrap" -> OkUnwrap(st, f.this)
      [] f.k \in {"_Err.unwrap", "_Err.throw"} -> ErrThrow(st, f.this)
      [] f.k = "Calculator.add" /\ f.this.t = "object" -> CalculatorAdd(st, f.this, a)
      [] f.k = "Calculator.fail" -> CalculatorFail(st)
      [] f.k = "Object.valueOf" -> Return(st, f.this, 1)
      [] f.k = "String.valueOf" /\ f.this.t = "string" -> Return(st, f.this, 1)
      [] f.k = "Number.valueOf" /\ f.this.t \in {"number", "nan"} -> Return(st, f.this, 1)
      [] f.k = "Boolean.valueOf" /\ f.this.t = "boolean" -> Return(st, f.this, 1)
      [] f.k = "String.toUpperCase" /\ f.this.t = "string" ->
            Return(st, Str(Upper(f.this.s)), 1)
      [] OTHER -> Raise(st, TypeError, 1)

\* x.p() as the traps write it on the target: target.isErr(), target.unwrap()
CallMember(st, r, p) == CallFn(st, BindTo(TargetGet(st, r, p), Target(r)), Undef)

(***************************************************************************)
(* The membrane: the get and set traps of __proxify.                       *)
(***************************************************************************)
\* A variant that has no case for `then`.
NoThenProbe(p) == FALSE

\* if (prop === "then") return undefined
IsThenProbe(p) == p = "then"

\* A variant whose list lacks `error` and `throw`.
IsResultKeyShort(p) == p \in {"success", "isOk", "isErr", "unwrap"}

\* RESULT_KEYS.includes(prop)
IsResultKey(p) == p \in RESULT_KEYS

\* const v = Reflect.get(target, prop, target);
\* return typeof v === "function" ? v.bind(target) : v
GetResultMember(st, r, p) == BindTo(TargetGet(st, r, p), Target(r))

\* A variant that closes over the target in place of the receiver.
StickyOverTarget(receiver) == Bound("sticky", Target(receiver.r))

\* (..._args) => receiver
Sticky(receiver) == Bound("sticky", receiver)

\* A variant that looks the member up on the value as it is.
HostNotBoxed(inner) == inner

\* inner !== null && (typeof inner === "object" || typeof inner === "function")
\*   ? inner : Object(inner)
HostFor(inner) == IF IsObjectLike(inner) THEN inner ELSE Box(inner)

\* A variant that hands the member out as it was found.
GetHostMemberNotBound(st, host, p) == HostGet(st, host, p)

\* const v = Reflect.get(host, prop, host);
\* return typeof v === "function" ? v.bind(host) : v
GetHostMember(st, host, p) == BindTo(HostGet(st, host, p), host)

\* An outcome with the count of an earlier step added.
After(x, out) == Out(out.st, out.kind, out.v, x + out.x)

\* const inner = target.unwrap(); ... return the member of the host
GetForwarded(u, p) ==
    IF u.kind = "raise" THEN u
    ELSE Return(u.st, GetHostMember(u.st, HostFor(u.v), p), u.x)

\* if (target.isErr()) return (..._args) => receiver; otherwise forward
GetOther(e, r, p, receiver) ==
    IF e.kind = "raise" THEN e
    ELSE IF Truthy(e.v) THEN Return(e.st, Sticky(receiver), e.x)
    ELSE After(e.x, GetForwarded(CallMember(e.st, r, "unwrap"), p))

\* get(target, prop, receiver)
ProxyGet(st, r, p, receiver) ==
    IF IsThenProbe(p) THEN Return(st, Undef, 0)
    ELSE IF IsResultKey(p) THEN Return(st, GetResultMember(st, r, p), 0)
    ELSE GetOther(CallMember(st, r, "isErr"), r, p, receiver)

\* A variant that drops the write.
SetResultMemberDropped(st, r, p, v) == st

\* Reflect.set(target, prop, value, target): the target is an ordinary
\* extensible object and the prototype's methods are writable data
\* properties, so the value becomes an own property of the target.
SetResultMember(st, r, p, v) ==
    Store([st.results EXCEPT ![r].own = Put(@, p, v)], st.heap)

\* A variant that tests for null only.
IsNullOnly(inner) == inner.t = "null"

\* inner === null || (typeof inner !== "object" && typeof inner !== "function")
IsPrimitive(inner) == ~IsObjectLike(inner)

\* A variant that drops the write.
SetInnerMemberDropped(st, inner, p, v) == Return(st, v, 0)

\* Reflect.set(inner, prop, value, inner): an own data property of a wrapped
\* object is set; Reflect.set refuses a target that is not an object with a
\* TypeError.
SetInnerMember(st, inner, p, v) ==
    IF inner.t = "object"
    THEN Return(Store(st.results, [st.heap EXCEPT ![inner.a].f = Put(@, p, v)]), v, 0)
    ELSE IF IsObjectLike(inner) THEN Return(st, v, 0)
    ELSE Raise(st, TypeError, 0)

\* const inner = target.unwrap(); a primitive is left alone, an object is
\* written to
SetForwarded(u, p, v) ==
    IF u.kind = "raise" THEN u
    ELSE IF IsPrimitive(u.v) THEN Return(u.st, v, u.x)
    ELSE After(u.x, SetInnerMember(u.st, u.v, p, v))

\* if (target.isErr()) return true; otherwise forward
SetOther(e, r, p, v) ==
    IF e.kind = "raise" THEN e
    ELSE IF Truthy(e.v) THEN Return(e.st, v, e.x)
    ELSE After(e.x, SetForwarded(CallMember(e.st, r, "unwrap"), p, v))

\* set(target, prop, value, receiver); every path that returns, returns
\* true, and the assignment then has the value assigned
ProxySet(st, r, p, v) ==
    IF IsResultKey(p) THEN Return(SetResultMember(st, r, p, v), v, 0)
    ELSE SetOther(CallMember(st, r, "isErr"), r, p, v)

(***************************************************************************)
(* The state machine: one Result is constructed, then members are read     *)
(* through Results, written through them, and what was read is called.     *)
(*   ret       what the last operation returned or raised                  *)
(*   op        the last operation                                          *)
(*   executed  the number of methods of wrapped values the last operation  *)
(*             ran                                                         *)
(*   writes    the member writes made so far, as <<result, name>>          *)
(***************************************************************************)
\* Values handed to writes and calls.
IsErrOfFirst == Bound("_ResultBase.isErr", Target(1))

WriteVals == {Bool(TRUE), Bool(FALSE), IsErrOfFirst}

WriteNames == RESULT_KEYS \cup {"then", "foo"}

Args == {Undef, Num(5)}

Hi == <<"h", "i">>

\* const data = new Calculator(0)
CalculatorZero == NewCalculator(Num(0))

\* A plain object whose members collide with the membrane's own names.
Colliding ==
    [cls |-> "Object",
     f |-> [m \in {"foo", "then", "success", "error", "unwrap"} |->
              CASE m = "foo" -> Num(0)
                [] m = "success" -> Bool(FALSE)
                [] OTHER -> Num(1)]]

\* The payloads new Result(...) is given, each with the objects it refers to.
InitCases ==
    {[params |-> OkOf(d), heap |-> <<>>] : d \in {Undef, Null, Bool(TRUE), Num(0), Str(Hi)}}
    \cup {[params |-> OkOf(Obj(1)), heap |-> <<Colliding>>]}
    \cup {[params |-> ErrOf(ErrorObj(1)), heap |-> <<>>]}

\* const start = new Result({ success: true, data: new Calculator(0) })
ChainCases == InitCases \cup {[params |-> OkOf(Obj(1)), heap |-> <<CalculatorZero>>]}

NoOp == [kind |-> "new", r |-> 1, m |-> "", v |-> Undef, a |-> Undef]

Construct(cases) ==
    \E c \in cases :
        /\ results = <<ResultCtor(c.params)>>
        /\ heap = c.heap
        /\ ret = [kind |-> "none", v |-> Undef]
        /\ op = NoOp
        /\ executed = 0
        /\ writes = <<>>

Init == Construct(InitCases)

InitChain == Construct(ChainCases)

\* The operation o, whose outcome is out, takes place.
Apply(outcome, o) ==
    \E out \in {outcome} :
        /\ Len(out.st.results) <= MaxResults
        /\ results' = out.st.results
        /\ heap' = out.st.heap
        /\ ret' = [kind |-> out.kind, v |-> out.v]
        /\ executed' = out.x
        /\ op' = o

Indices == 1..Len(results)

Now == Store(results, heap)

\* const x = result.m
Read(r, m) ==
    /\ Apply(ProxyGet(Now, r, m, Res(r)),
             [kind |-> "read", r |-> r, m |-> m, v |-> Undef, a |-> Undef])
    /\ UNCHANGED writes

\* result.m = v
Write(r, m, v) ==
    /\ Len(writes) < MaxWrites
    /\ Apply(ProxySet(Now, r, m, v),
             [kind |-> "write", r |-> r, m |-> m, v |-> v, a |-> Undef])
    /\ writes' = Append(writes, <<r, m>>)

\* x(a), for the x that was last read or returned. After the read of
\* result.m this is the method call result.m(a): every function the
\* membrane hands out has its receiver, so that the receiver of the call
\* plays no part. The operation keeps the Result and the name of such a read.
Call(a) ==
    /\ ret.kind = "value"
    /\ op.kind \in {"read", "call"}
    /\ Apply(CallFn(Now, ret.v, a),
             [kind |-> "call", r |-> IF op.kind = "read" THEN op.r ELSE 0,
              m |-> IF op.kind = "read" THEN op.m ELSE "", v |-> ret.v, a |-> a])
    /\ UNCHANGED writes

Next ==
    \/ \E r \in Indices, m \in Names : Read(r, m)
    \/ \E r \in Indices, m \in WriteNames, v \in WriteVals : Write(r, m, v)
    \/ \E a \in Args : Call(a)

Spec == Init /\ [][Next]_vars

\* Chains of member reads and method calls with no write among them, also
\* from a Result wrapping a Calculator: start.add(5).fail().add(10)
NextChain ==
    \/ \E r \in Indices, m \in Names : Read(r, m)
    \/ \E a \in Args : Call(a)

SpecChain == InitChain /\ [][NextChain]_vars

\* Overwriting the tag and then using the Result: result.success = false,
\* then member reads, calls and writes of a member that is not reserved.
TagNames == {"success", "foo"}

TagVals == {Bool(TRUE), Bool(FALSE)}

WriteTag(r, m, v) ==
    /\ Len(writes) < MaxTagWrites
    /\ Apply(ProxySet(Now, r, m, v),
             [kind |-> "write", r |-> r, m |-> m, v |-> v, a |-> Undef])
    /\ writes' = Append(writes, <<r, m>>)

NextTag ==
    \/ \E r \in Indices, m \in Names : Read(r, m)
    \/ \E r \in Indices, m \in TagNames, v \in TagVals : WriteTag(r, m, v)
    \/ \E a \in Args : Call(a)

SpecTag == Init /\ [][NextTag]_vars

(***************************************************************************)
(* Vocabulary of the properties.                                           *)
(***************************************************************************)
Special == RESULT_KEYS \cup {"then"}

Returned(v) == [kind |-> "value", v |-> v]
Raised(v) == [kind |-> "raise", v |-> v]

\* No write so far named one of these members of Result r.
Untouched(r, names) ==
    \A i \in 1..Len(writes) : ~(writes[i][1] = r /\ writes[i][2] \in names)

\* A Failure: made by _Err, tag false, isErr the method of the class.
IsFailure(r) ==
    /\ results[r].cls = "Err"
    /\ results[r].own["success"] = Bool(FALSE)
    /\ ~Has(results[r].own, "isErr")

\* A Success: made by _Ok, tag true, isErr and unwrap the methods of the class.
IsSuccess(r) ==
    /\ results[r].cls = "Ok"
    /\ results[r].own["success"] = Bool(TRUE)
    /\ ~Has(results[r].own, "isErr")
    /\ ~Has(results[r].own, "unwrap")

\* A function value without the wrappers bind put around it.
Unwrapped(v) == IF IsFunction(v) THEN [v EXCEPT !.w = 0] ELSE v

\* result.m() in the current state.
ThenCall(g) == IF g.kind = "raise" THEN g ELSE After(g.x, CallFn(g.st, g.v, Undef))
MethodOf(r, m) == ThenCall(ProxyGet(Now, r, m, Res(r)))

(***************************************************************************)
(* C1. Sticky failure. Reading any member other than `then` and the        *)
(* reserved names on a Failure F gives, without raising, a function that   *)
(* returns F for any argument; neither the read nor the call runs a method *)
(* of a wrapped value or changes a Result or a wrapped object. So every    *)
(* step of a chain after the one that yielded F yields F again: F.isErr()  *)
(* is true and F.error is the error F was made with.                       *)
(***************************************************************************)
StickyFailure ==
    [][\A r \in Indices :
          IsFailure(r) =>
            /\ (op'.kind = "read" /\ op'.r = r /\ op'.m \notin Special)
                 => /\ ret' = Returned(Sticky(Res(r)))
                    /\ executed' = 0 /\ results' = results /\ heap' = heap
            /\ (op'.kind = "call" /\ op'.v = Sticky(Res(r)))
                 => /\ ret' = Returned(Res(r))
                    /\ executed' = 0 /\ results' = results /\ heap' = heap
            /\ MethodOf(r, "isErr") = Return(Now, Bool(TRUE), 0)
            /\ ProxyGet(Now, r, "error", Res(r)) = Return(Now, results[r].made.error, 0)
      ]_vars

\* start.add(5).fail().add(10): the third Result is the Failure of fail(),
\* and the add after it gave that Failure back.
StickyFailureWitness ==
    /\ Len(results) = 3
    /\ results[2].cls = "Ok"
    /\ results[3].cls = "Err"
    /\ op.kind = "call" /\ op.r = 3 /\ op.m = "add" /\ op.a = Num(5)
    /\ op.v = Sticky(Res(3))
    /\ ret = Returned(Res(3))

(***************************************************************************)
(* C2. For a Result constructed as a Failure, whatever was read, written   *)
(* and called before: no member read and no member write raises the stored *)
(* error; it is raised only by a call of unwrap() or throw(). This is the  *)
(* claim's part about the stored error: the claim forbids every raise by a *)
(* read or a write, so a state violating this violates the claim.          *)
(***************************************************************************)
NoImplicitRaise ==
    \A r \in Indices :
        (~results[r].made.success /\ op.r = r /\ ret = Raised(results[r].made.error))
            => (op.kind = "call" /\ op.m \in {"unwrap", "throw"})

(***************************************************************************)
(* C3. unwrap() on a Result constructed from {success: true, data} returns *)
(* exactly data and changes neither a Result nor a wrapped object;         *)
(* unwrap() and throw() on a Result constructed from {success: false,      *)
(* error} raise exactly error. Stated for every state in which the member  *)
(* called (and, for a Failure, the member error) was not overwritten;      *)
(* the tag may have been.                                                  *)
(***************************************************************************)
UnwrapIsExact ==
    [][\A r \in Indices :
          (op'.kind = "call" /\ op'.r = r /\ op'.m \in {"unwrap", "throw"}
             /\ Untouched(r, {op'.m, "error"}))
          => IF results[r].made.success
             THEN op'.m = "unwrap"
                    => /\ ret' = Returned(results[r].made.data)
                       /\ results' = results /\ heap' = heap /\ executed' = 0
             ELSE ret' = Raised(results[r].made.error)
      ]_vars

\* unwrap() was called on a Success wrapping an object and returned that
\* object.
UnwrapIsExactWitness ==
    /\ op.kind = "call" /\ op.m = "unwrap" /\ op.r = 1
    /\ results[1].made.success
    /\ results[1].made.data = Obj(1)
    /\ ret = Returned(Obj(1))

CallsTagMethod(r) == op.kind = "call" /\ op.r = r /\ op.m \in {"isOk", "isErr"}

OtherTagMethod(m) == IF m = "isOk" THEN "isErr" ELSE "isOk"

AtConstruction(r, m) == Bool(results[r].made.success = (m = "isOk"))

(***************************************************************************)
(* C4 as stated. For every Result, after any reads, writes and calls:      *)
(* isOk() and isErr() return opposite booleans, and as long as `success`   *)
(* was not written each returns what it returned at construction.          *)
(***************************************************************************)
TagMethodsFixedUnlessTagWritten ==
    \A r \in Indices :
        CallsTagMethod(r) =>
            /\ ret.kind = "value"
            /\ ret.v.t = "boolean"
            /\ MethodOf(r, OtherTagMethod(op.m)) = Return(Now, Bool(~ret.v.b), 0)
            /\ Untouched(r, {"success"}) => ret.v = AtConstruction(r, op.m)

(***************************************************************************)
(* C4 as amended. As long as neither isOk nor isErr was written: isOk()    *)
(* returns the current value of `success` and isErr() the boolean negation *)
(* of it, so that the two return opposite booleans whenever `success`      *)
(* holds a boolean; and as long as none of success, isOk and isErr was     *)
(* written each returns what it returned at construction.                  *)
(***************************************************************************)
TagMethodsFollowTag ==
    \A r \in Indices :
        (CallsTagMethod(r) /\ Untouched(r, {"isOk", "isErr"})) =>
            /\ executed = 0
            /\ ret = Returned(IF op.m = "isOk" THEN results[r].own["success"]
                              ELSE Bool(~Truthy(results[r].own["success"])))
            /\ results[r].own["success"].t = "boolean" =>
                 /\ ret.v.t = "boolean"
                 /\ MethodOf(r, OtherTagMethod(op.m)) = Return(Now, Bool(~ret.v.b), 0)
            /\ Untouched(r, {"success"}) => ret.v = AtConstruction(r, op.m)

\* isErr() was called on a Success after its tag had been overwritten with
\* false, and returned true.
TagMethodsFollowTagWitness ==
    /\ op.kind = "call" /\ op.m = "isErr" /\ op.r = 1
    /\ results[1].made.success
    /\ writes = <<<<1, "success">>>>
    /\ results[1].own["success"] = Bool(FALSE)
    /\ ret = Returned(Bool(TRUE))

(***************************************************************************)
(* C5. Reserved names win on read. Reading success, isOk, isErr, unwrap,   *)
(* error or throw never raises, runs nothing and gives what the Result     *)
(* object itself holds under that name, whatever the wrapped value holds   *)
(* under it: the own property when there is one (a function comes bound),  *)
(* otherwise the method of the class bound to the Result object, and       *)
(* undefined for `error` and `throw` on a Success.                         *)
(***************************************************************************)
ReservedNamesWin ==
    \A r \in Indices :
        (op.kind = "read" /\ op.r = r /\ op.m \in RESULT_KEYS) =>
            /\ ret.kind = "value"
            /\ executed = 0
            /\ IF Has(results[r].own, op.m)
               THEN Unwrapped(ret.v) = results[r].own[op.m]
               ELSE CASE op.m \in {"isOk", "isErr"} ->
                           ret.v = Bound(IF op.m = "isOk" THEN "_ResultBase.isOk"
                                         ELSE "_ResultBase.isErr", Target(r))
                      [] op.m = "unwrap" ->
                           ret.v = Bound(IF results[r].cls = "Ok" THEN "_Ok.unwrap"
                                         ELSE "_Err.unwrap", Target(r))
                      [] op.m = "throw" /\ results[r].cls = "Err" ->
                           ret.v = Bound("_Err.throw", Target(r))
                      [] OTHER -> ret.v = Undef
            /\ Untouched(r, {op.m}) =>
                 /\ op.m = "success" => ret.v = Bool(results[r].made.success)
                 /\ op.m = "error" =>
                      ret.v = IF results[r].made.success THEN Undef
                              ELSE results[r].made.error
                 /\ op.m \in {"isOk", "isErr", "unwrap", "throw"} =>
                      (ret.v = Undef \/ (IsFunction(ret.v) /\ ret.v.this = Target(r)))

\* `error` was read on a Success whose wrapped object has a member `error`,
\* and read as undefined.
ReservedNamesWinWitness ==
    /\ op.kind = "read" /\ op.m = "error" /\ op.r = 1
    /\ results[1].made.success
    /\ heap # <<>> /\ Has(heap[1].f, "error")
    /\ ret = Returned(Undef)

(***************************************************************************)
(* C6. Reading `then` on a Result yields undefined, for both variants, in  *)
(* every reachable state: whatever the wrapped value is, also when it has  *)
(* a member `then`, and whatever was written through the Result before.    *)
(***************************************************************************)
ThenIsUndefined ==
    (op.kind = "read" /\ op.m = "then") => (ret = Returned(Undef) /\ executed = 0)

\* `then` was read after `then` had been written through the Result into
\* the wrapped object.
ThenIsUndefinedWitness ==
    /\ op.kind = "read" /\ op.m = "then" /\ op.r = 1
    /\ writes = <<<<1, "then">>>>
    /\ heap # <<>> /\ heap[1].f["then"] = Bool(TRUE)
    /\ ret = Returned(Undef)

\* x.m as the language resolves it, a method with x as its receiver.
MemberOf(x, m) ==
    IF ~IsFunction(HostGet(Now, x, m)) THEN HostGet(Now, x, m)
    ELSE IF IsUnbound(HostGet(Now, x, m)) THEN Bound(HostGet(Now, x, m).k, x)
    ELSE [HostGet(Now, x, m) EXCEPT !.w = @ + 1]

\* What x.m(a) has returned, for the methods of the model.
MethodResult(x, m, a) ==
    CASE ~IsFunction(MemberOf(x, m)) -> ret = Raised(TypeError)
      [] MemberOf(x, m).k \in {"Object.valueOf", "String.valueOf",
                               "Number.valueOf", "Boolean.valueOf"} ->
            ret = Returned(x) /\ executed = 1
      [] MemberOf(x, m).k = "String.toUpperCase" ->
            ret = Returned(Str(<<"H", "I">>)) /\ executed = 1
      [] MemberOf(x, m).k = "Calculator.add" ->
            /\ ret = Returned(Res(Len(results))) /\ executed = 1
            /\ results[Len(results)].made = OkOf(Obj(Len(heap)))
            /\ heap[Len(heap)] = NewCalculator(Plus(heap[x.a].f["val"], a))
      [] MemberOf(x, m).k = "Calculator.fail" ->
            /\ ret = Returned(Res(Len(results))) /\ executed = 1
            /\ ~results[Len(results)].made.success
      [] OTHER -> TRUE

(***************************************************************************)
(* C7. Read forwarding on Success. For a Success wrapping a value x other  *)
(* than null and undefined and a member name m that is neither `then` nor  *)
(* reserved: reading m through the Result gives what x (its boxed form     *)
(* when x is a primitive) holds under m, a function coming bound to x; and *)
(* calling what was read runs the member with x, not the Result, as        *)
(* receiver and returns what x.m(a) returns.                               *)
(***************************************************************************)
ReadsAreForwarded ==
    \A r \in Indices :
        (IsSuccess(r) /\ results[r].made.data.t \notin {"undefined", "null"}
           /\ op.r = r /\ op.m \in Names \ Special) =>
            /\ op.kind = "read" =>
                 (ret = Returned(MemberOf(results[r].made.data, op.m)) /\ executed = 0)
            /\ op.kind = "call" => MethodResult(results[r].made.data, op.m, op.a)

\* valueOf() was called through a Success wrapping a Calculator and
\* returned the Calculator, not the Result.
ReadsAreForwardedWitness ==
    /\ op.kind = "call" /\ op.m = "valueOf" /\ op.r = 1
    /\ heap # <<>> /\ heap[1].cls = "Calculator"
    /\ IsSuccess(1)
    /\ ret = Returned(Obj(1))

WrapsNothing(r) == IsSuccess(r) /\ results[r].made.data \in {Null, Undef}

(***************************************************************************)
(* C8 as stated. For a Success whose wrapped value is null or undefined,   *)
(* reading any member name that is not reserved yields undefined.          *)
(***************************************************************************)
NullishReadsUndefined ==
    \A r \in Indices :
        (WrapsNothing(r) /\ op.kind = "read" /\ op.r = r /\ op.m \notin RESULT_KEYS)
            => ret = Returned(Undef)

\* The names of the model that Object.prototype defines.
ObjectPrototypeNames == {"valueOf"}

(***************************************************************************)
(* C8 as amended. For a Success whose wrapped value is null or undefined,  *)
(* reading a member name that is not reserved never raises and yields      *)
(* undefined, unless the name is a member of Object.prototype (valueOf,    *)
(* toString, ...): then it yields that member bound to a new empty object. *)
(***************************************************************************)
NullishReadsEmptyObject ==
    \A r \in Indices :
        (WrapsNothing(r) /\ op.kind = "read" /\ op.r = r /\ op.m \notin RESULT_KEYS)
            => /\ executed = 0
               /\ ret = Returned(IF op.m \in ObjectPrototypeNames
                                 THEN Bound("Object.valueOf", FreshObj)
                                 ELSE Undef)

\* valueOf was read on a Success wrapping null and came out as a function.
NullishReadsEmptyObjectWitness ==
    /\ op.kind = "read" /\ op.m = "valueOf" /\ op.r = 1
    /\ results[1].made.data = Null
    /\ WrapsNothing(1)
    /\ IsFunction(ret.v)

WroteThrough(r) ==
    /\ op.kind = "write" /\ op.r = r /\ op.m \notin RESULT_KEYS
    /\ IsSuccess(r)
    /\ results[r].made.data.t = "object"

(***************************************************************************)
(* C9 as stated. Write-through on Success: after result.m = v on a Success *)
(* wrapping an object o, for m not reserved, the field m of o equals v,    *)
(* unwrap() still returns o, reading m through the Result yields v, and    *)
(* the tag of the Result is unchanged.                                     *)
(***************************************************************************)
WriteThroughReadsBack ==
    \A r \in Indices :
        WroteThrough(r) =>
            /\ ret = Returned(op.v)
            /\ Has(heap[results[r].made.data.a].f, op.m)
            /\ heap[results[r].made.data.a].f[op.m] = op.v
            /\ MethodOf(r, "unwrap") = Return(Now, results[r].made.data, 0)
            /\ results[r].own["success"] = Bool(TRUE)
            /\ ProxyGet(Now, r, op.m, Res(r)) = Return(Now, op.v, 0)

(***************************************************************************)
(* C9 as amended. After result.m = v on a Success wrapping an object o,    *)
(* for m not reserved: the field m of o equals v, unwrap() still returns   *)
(* o and the tag is unchanged; reading m through the Result yields v when  *)
(* m is not `then` and v is not a function, yields a function bound by     *)
(* bind that behaves as v when v is a function, and yields undefined when  *)
(* m is `then`.                                                            *)
(***************************************************************************)
WriteThrough ==
    \A r \in Indices :
        WroteThrough(r) =>
            /\ ret = Returned(op.v)
            /\ Has(heap[results[r].made.data.a].f, op.m)
            /\ heap[results[r].made.data.a].f[op.m] = op.v
            /\ MethodOf(r, "unwrap") = Return(Now, results[r].made.data, 0)
            /\ results[r].own["success"] = Bool(TRUE)
            /\ ProxyGet(Now, r, op.m, Res(r))
                 = Return(Now,
                          CASE op.m = "then" -> Undef
                            [] IsFunction(op.v) -> [op.v EXCEPT !.w = @ + 1]
                            [] OTHER -> op.v,
                          0)

\* foo = true was written through a Success wrapping an object whose foo
\* was 0, and the object's foo is true.
WriteThroughWitness ==
    /\ WroteThrough(1)
    /\ op.m = "foo" /\ op.v = Bool(TRUE)
    /\ heap[1].f["foo"] = Bool(TRUE)

(***************************************************************************)
(* C10. Writing a member that is not reserved to a Failure, or to a        *)
(* Success wrapping a primitive, null or undefined, raises nothing and     *)
(* changes nothing: the tag, the stored error, the wrapped value and what  *)
(* reading any member gives (the written one included) are as before.      *)
(***************************************************************************)
WriteIsSilentNoOp ==
    [][\A r \in Indices :
          (op'.kind = "write" /\ op'.r = r /\ op'.m \notin RESULT_KEYS
             /\ (IsFailure(r) \/ (IsSuccess(r) /\ results[r].made.data.t # "object")))
          => /\ ret' = Returned(op'.v)
             /\ executed' = 0
             /\ results' = results
             /\ heap' = heap
             /\ \A m \in Names :
                    ProxyGet(Store(results', heap'), r, m, Res(r))
                      = ProxyGet(Now, r, m, Res(r))
      ]_vars

\* foo was written to a Success wrapping the string "hi".
WriteIsSilentNoOpWitness ==
    /\ op.kind = "write" /\ op.r = 1 /\ op.m = "foo"
    /\ results[1].made.data = Str(Hi)
    /\ IsSuccess(1)
    /\ ret.kind = "value"
    /\ ProxyGet(Now, 1, "foo", Res(1)) = Return(Now, Undef, 0)

\* result.success = b, for a boolean b, was the step just taken, on a Result
\* whose isOk and isErr are the methods of the class.
WritesTag(r) ==
    /\ op'.kind = "write" /\ op'.r = r /\ op'.m = "success"
    /\ op'.v.t = "boolean"
    /\ Untouched(r, {"isOk", "isErr"})

\* result.m() in the state after the step.
MethodAfter(r, m) == ThenCall(ProxyGet(Store(results', heap'), r, m, Res(r)))

(***************************************************************************)
(* C11. A direct write to the tag is honoured. After result.success = b on *)
(* either variant, b a boolean: reading success yields b, isOk() yields b  *)
(* and isErr() yields the negation of b; the write goes to the own storage *)
(* of the Result object (its success property and nothing else of it       *)
(* changes) and leaves the wrapped value, every wrapped object and every   *)
(* other Result as they were.                                              *)
(***************************************************************************)
TagWriteIsHonoured ==
    [][\A r \in Indices :
          WritesTag(r) =>
            /\ ret' = Returned(op'.v)
            /\ executed' = 0
            /\ ProxyGet(Store(results', heap'), r, "success", Res(r))
                 = Return(Store(results', heap'), op'.v, 0)
            /\ MethodAfter(r, "isOk") = Return(Store(results', heap'), op'.v, 0)
            /\ MethodAfter(r, "isErr")
                 = Return(Store(results', heap'), Bool(~op'.v.b), 0)
            /\ results'[r].own["success"] = op'.v
            /\ DOMAIN results'[r].own = DOMAIN results[r].own
            /\ \A p \in DOMAIN results[r].own \ {"success"} :
                   results'[r].own[p] = results[r].own[p]
            /\ results'[r].cls = results[r].cls
            /\ results'[r].data = results[r].data
            /\ results'[r].made = results[r].made
            /\ Len(results') = Len(results)
            /\ \A q \in Indices \ {r} : results'[q] = results[q]
            /\ heap' = heap
      ]_vars

\* success = false was written to a Success wrapping an object: isErr() is
\* now true and the object is as it was constructed.
TagWriteIsHonouredWitness ==
    /\ op.kind = "write" /\ op.r = 1 /\ op.m = "success" /\ op.v = Bool(FALSE)
    /\ results[1].made = OkOf(Obj(1))
    /\ results[1].own["success"] = Bool(FALSE)
    /\ MethodOf(1, "isErr") = Return(Now, Bool(TRUE), 0)
    /\ MethodOf(1, "isOk") = Return(Now, Bool(FALSE), 0)
    /\ heap = <<Colliding>>

\* The current tag of Result r, as a condition.
TagNow(r) == Truthy(results[r].own["success"])

\* Of the reserved members of Result r, only success may have been written.
OnlyTagWritten(r) == Untouched(r, {"isOk", "isErr", "unwrap", "error", "throw"})

\* unwrap(), throw() and error of Result r are those of the variant it was
\* constructed as.
UnwrapKeepsVariant(r) ==
    IF results[r].made.success
    THEN /\ MethodOf(r, "unwrap") = Return(Now, results[r].made.data, 0)
         /\ ProxyGet(Now, r, "error", Res(r)) = Return(Now, Undef, 0)
         /\ ProxyGet(Now, r, "throw", Res(r)) = Return(Now, Undef, 0)
    ELSE /\ MethodOf(r, "unwrap") = Raise(Now, results[r].made.error, 0)
         /\ MethodOf(r, "throw") = Raise(Now, results[r].made.error, 0)
         /\ ProxyGet(Now, r, "error", Res(r)) = Return(Now, results[r].made.error, 0)

\* isOk() and isErr() of Result r answer by the current tag.
TagMethodsAnswerByTag(r) ==
    /\ MethodOf(r, "isOk") = Return(Now, results[r].own["success"], 0)
    /\ MethodOf(r, "isErr") = Return(Now, Bool(~TagNow(r)), 0)

\* What reading m gives on a Success wrapping x.
ForwardedMember(x, m) ==
    IF x.t \in {"undefined", "null"}
    THEN (IF m \in ObjectPrototypeNames THEN Bound("Object.valueOf", FreshObj) ELSE Undef)
    ELSE MemberOf(x, m)

\* The last operation, a read or a write of a member of Result r that is
\* not reserved, took the branch of the current tag: the Failure branch
\* when the tag is false, the Success branch (which begins with unwrap())
\* when it is true.
MembraneFollowsTag(r) ==
    /\ (op.kind = "read" /\ op.r = r /\ op.m \notin Special) =>
          IF ~TagNow(r) THEN ret = Returned(Sticky(Res(r)))
          ELSE IF results[r].made.success
               THEN ret = Returned(ForwardedMember(results[r].made.data, op.m))
               ELSE ret = Raised(results[r].made.error)
    /\ (op.kind = "write" /\ op.r = r /\ op.m \notin RESULT_KEYS) =>
          IF ~TagNow(r) \/ results[r].made.success
          THEN /\ ret = Returned(op.v)
               /\ (TagNow(r) /\ results[r].made.data.t = "object")
                    => heap[results[r].made.data.a].f[op.m] = op.v
          ELSE ret = Raised(results[r].made.error)

====
